---- MODULE Spec2Model ----
(***************************************************************************)
(* Model of n-korel/user-subscriptions-api: the subscription store, the    *)
(* service's validation, and the cost aggregation query builder.           *)
(*                                                                         *)
(* Go strings are sequences of byte values (ASCII codes), so that the      *)
(* regular expression of validateDateFormat and the string comparison of   *)
(* the SQL predicates are computed character by character.  A Go pointer   *)
(* is a sequence of length 0 (nil) or 1 (the value pointed to); an SQL     *)
(* nullable value likewise (<<>> is NULL).                                 *)
(***************************************************************************)
EXTENDS Integers, Sequences, FiniteSets, TLC

VARIABLES
    store,     \* rows of table subscriptions (a set of records)
    nextId,    \* next value of the SERIAL sequence behind subscriptions.id
    call,      \* the last call made: its operation, arguments, outcome and trace
    created,   \* history: the identifiers of all rows ever inserted
    now        \* the store's clock, NOW() and CURRENT_TIMESTAMP, in seconds

vars == <<store, nextId, call, created, now>>

(***************************************************************************)
(* Bounds of the model.                                                    *)
(***************************************************************************)
\* number of rows ever inserted (values the SERIAL sequence hands out)
MaxId == 2
\* longest string enumerated exhaustively for the period validator
MaxStrLen == 8
\* seconds the store's clock advances
MaxTime == 2

(***************************************************************************)
(* Strings.                                                                *)
(***************************************************************************)
EmptyStr == <<>>

\* "01-2025", "12-2025", "06-2025", "11-2024", "12-2024"
P_01_2025 == <<48, 49, 45, 50, 48, 50, 53>>
P_12_2025 == <<49, 50, 45, 50, 48, 50, 53>>
P_06_2025 == <<48, 54, 45, 50, 48, 50, 53>>
P_11_2024 == <<49, 49, 45, 50, 48, 50, 52>>
P_12_2024 == <<49, 50, 45, 50, 48, 50, 52>>
\* "13-2025": two digits that are no month
P_13_2025 == <<49, 51, 45, 50, 48, 50, 53>>
\* "2025-01", "1-2025", "01-25": the malformed periods of the tests
S_2025_01 == <<50, 48, 50, 53, 45, 48, 49>>
S_1_2025 == <<49, 45, 50, 48, 50, 53>>
S_01_25 == <<48, 49, 45, 50, 53>>
\* " 01-2025", "01-2025x", "01-2025\n", "x01-2025": extra characters around a period
S_sp_01_2025 == <<32, 48, 49, 45, 50, 48, 50, 53>>
S_01_2025_x == <<48, 49, 45, 50, 48, 50, 53, 120>>
S_01_2025_nl == <<48, 49, 45, 50, 48, 50, 53, 10>>
S_x_01_2025 == <<120, 48, 49, 45, 50, 48, 50, 53>>
\* "0/-2025", "0:-2025": the characters next to '0' and '9' in ASCII
S_0slash_2025 == <<48, 47, 45, 50, 48, 50, 53>>
S_0colon_2025 == <<48, 58, 45, 50, 48, 50, 53>>
\* "01_2025", "01-20a5"
S_01u2025 == <<48, 49, 95, 50, 48, 50, 53>>
S_01_20a5 == <<48, 49, 45, 50, 48, 97, 53>>

\* "Netflix", "Spotify", "netflix"
Netflix == <<78, 101, 116, 102, 108, 105, 120>>
Spotify == <<83, 112, 111, 116, 105, 102, 121>>
netflix == <<110, 101, 116, 102, 108, 105, 120>>

\* two user identifiers "u1", "u2" and uuid.Nil "0"
U1 == <<117, 49>>
U2 == <<117, 50>>
UuidNil == <<48>>

\* Go pointers / SQL nullable values
NilPtr == <<>>
Ptr(v) == <<v>>
IsNil(p) == Len(p) = 0
Deref(p) == p[1]

\* mutant: periods compared as calendar months (year first, then month)
CalendarGE(a, b) ==
    IF Len(a) = 7 /\ Len(b) = 7
    THEN LET ya == <<a[4], a[5], a[6], a[7], a[1], a[2]>>
             yb == <<b[4], b[5], b[6], b[7], b[1], b[2]>>
         IN  \/ ya = yb
             \/ \E k \in 1..6 : (\A j \in 1..(k - 1) : ya[j] = yb[j]) /\ ya[k] > yb[k]
    ELSE Len(b) = 0

\* Byte-wise string order (Go's and the "C" collation's): a >= b.
\* For two values of the shape DD-DDDD every collation agrees with it.
RECURSIVE StrGE(_, _)
StrGE(a, b) ==
    IF Len(b) = 0 THEN TRUE
    ELSE IF Len(a) = 0 THEN FALSE
    ELSE IF Head(a) # Head(b) THEN Head(a) > Head(b)
    ELSE StrGE(Tail(a), Tail(b))

(***************************************************************************)
(* regexp.MatchString: an unanchored search for the pattern in the text.   *)
(* A pattern is a sequence of elements                                     *)
(*   bol   ^   (start of text, no flag m)                                  *)
(*   eol   $   (end of text, no flag m: not before a final newline)        *)
(*   digit \d{n}  (ASCII 0-9, exactly n times)                             *)
(*   lit   the byte c, exactly n times                                     *)
(***************************************************************************)
IsDigit(c) == c \in 48..57

ElemMatches(e, c) ==
    IF e.k = "digit" THEN IsDigit(c) ELSE c = e.c

RECURSIVE MatchHere(_, _, _, _)
MatchHere(pat, i, s, pos) ==
    IF i > Len(pat) THEN TRUE
    ELSE LET e == pat[i] IN
         IF e.k = "bol" THEN pos = 1 /\ MatchHere(pat, i + 1, s, pos)
         ELSE IF e.k = "eol" THEN pos = Len(s) + 1 /\ MatchHere(pat, i + 1, s, pos)
         ELSE /\ pos + e.n - 1 <= Len(s)
              /\ \A j \in pos..(pos + e.n - 1) : ElemMatches(e, s[j])
              /\ MatchHere(pat, i + 1, s, pos + e.n)

MatchString(pat, s) == \E pos \in 1..(Len(s) + 1) : MatchHere(pat, 1, s, pos)

\* `\d{2}-\d{4}` without the final $: a mutant of DatePattern
DatePatternNoEnd ==
    << [k |-> "bol", c |-> 0, n |-> 0],
       [k |-> "digit", c |-> 0, n |-> 2],
       [k |-> "lit", c |-> 45, n |-> 1],
       [k |-> "digit", c |-> 0, n |-> 4] >>

\* pattern := `^\d{2}-\d{4}$`
DatePattern ==
    << [k |-> "bol", c |-> 0, n |-> 0],
       [k |-> "digit", c |-> 0, n |-> 2],
       [k |-> "lit", c |-> 45, n |-> 1],
       [k |-> "digit", c |-> 0, n |-> 4],
       [k |-> "eol", c |-> 0, n |-> 0] >>

(***************************************************************************)
(* Errors (the messages of fmt.Errorf); NoError is Go's nil error.         *)
(***************************************************************************)
NoError == "<nil>"
ErrMissingDateRange == "at least one date parameter is required"
ErrDateEmpty == "date cannot be empty"
ErrDateFormat == "date must be in MM-YYYY format"
ErrServiceName == "service_name is required"
ErrPrice == "price must be greater than 0"
ErrUserID == "user_id is required and must be valid UUID"
ErrNotFound == "subscription not found"
ErrCalcCost == "failed to calculate cost"
ErrCreate == "failed to create subscription"
ErrUpdate == "failed to update subscription"
ErrDelete == "failed to delete subscription"
ErrQuery == "failed to query subscriptions"

\* mutant: the two leading digits must be a month 01..12
validateDateFormatMonth(date) ==
    IF date = EmptyStr THEN ErrDateEmpty
    ELSE IF ~MatchString(DatePattern, date) THEN ErrDateFormat
    ELSE IF (date[1] - 48) * 10 + (date[2] - 48) \notin 1..12 THEN ErrDateFormat
    ELSE NoError

\* service.validateDateFormat
validateDateFormat(date) ==
    IF date = EmptyStr THEN ErrDateEmpty
    ELSE IF ~MatchString(DatePattern, date) THEN ErrDateFormat
    ELSE NoError

(***************************************************************************)
(* The subscriptions table (migration 000001) and the requests.            *)
(***************************************************************************)
\* a CreateSubscriptionRequest / UpdateSubscriptionRequest
Req(name, price, user, start, end) ==
    [service_name |-> name, price |-> price, user_id |-> user,
     start_date |-> start, end_date |-> end]

\* a row of table subscriptions as INSERT writes it; end_date is nullable,
\* created_at and updated_at take their DEFAULT NOW()
Row(id, req) ==
    [id |-> id, service_name |-> req.service_name, price |-> req.price,
     user_id |-> req.user_id, start_date |-> req.start_date,
     end_date |-> req.end_date, created_at |-> now, updated_at |-> now]

\* mutant: the row is written anew, created_at included
UpdatedRowAnew(old, req) ==
    Row(old.id, req)

\* a row as UPDATE ... SET service_name=$1, price=$2, user_id=$3,
\* start_date=$4, end_date=$5, updated_at=CURRENT_TIMESTAMP leaves it
UpdatedRow(old, req) ==
    [old EXCEPT !.service_name = req.service_name, !.price = req.price,
                !.user_id = req.user_id, !.start_date = req.start_date,
                !.end_date = req.end_date, !.updated_at = now]

\* the error of the underlying driver (connection lost, context cancelled)
ErrDriver == "driver error"
\* pgx.ErrNoRows
ErrNoRows == "no rows in result set"
\* the error of Scan when a column is NULL and the destination is an int
ErrScanNull == "cannot scan NULL into *int"

(***************************************************************************)
(* repository.GetCostByPeriod: the statement builder.                      *)
(* A statement is the list of predicates ANDed onto WHERE 1=1, each with   *)
(* the number of its placeholder, and the list of arguments.               *)
(***************************************************************************)
\* query += fmt.Sprintf(" AND <col> <op> $%d", argCount); args = append(args, v);
\* argCount++ (when inc)
AddPredicate(q, col, op, v, inc) ==
    [preds |-> Append(q.preds, [col |-> col, op |-> op, ph |-> q.argCount]),
     args |-> Append(q.args, v),
     argCount |-> IF inc THEN q.argCount + 1 ELSE q.argCount]

\* mutant: argCount is not advanced after the end_date predicate
BuildCostQueryNoIncr(startDate, endDate, userID, serviceName) ==
    LET q0 == [preds |-> <<>>, args |-> <<>>, argCount |-> 1]
        q1 == IF startDate # EmptyStr
              THEN AddPredicate(q0, "start_date", ">=", startDate, TRUE) ELSE q0
        q2 == IF endDate # EmptyStr
              THEN AddPredicate(q1, "end_date", "IS NULL OR >=", endDate, FALSE) ELSE q1
        q3 == IF ~IsNil(userID)
              THEN AddPredicate(q2, "user_id", "=", Deref(userID), TRUE) ELSE q2
        q4 == IF ~IsNil(serviceName)
              THEN AddPredicate(q3, "service_name", "=", Deref(serviceName), FALSE) ELSE q3
    IN  [preds |-> q4.preds, args |-> q4.args]

\* mutant: the service_name predicate is skipped for a pointer to ""
BuildCostQuerySkipEmptyName(startDate, endDate, userID, serviceName) ==
    LET q0 == [preds |-> <<>>, args |-> <<>>, argCount |-> 1]
        q1 == IF startDate # EmptyStr
              THEN AddPredicate(q0, "start_date", ">=", startDate, TRUE) ELSE q0
        q2 == IF endDate # EmptyStr
              THEN AddPredicate(q1, "end_date", "IS NULL OR >=", endDate, TRUE) ELSE q1
        q3 == IF ~IsNil(userID)
              THEN AddPredicate(q2, "user_id", "=", Deref(userID), TRUE) ELSE q2
        q4 == IF ~IsNil(serviceName) /\ Deref(serviceName) # EmptyStr
              THEN AddPredicate(q3, "service_name", "=", Deref(serviceName), FALSE) ELSE q3
    IN  [preds |-> q4.preds, args |-> q4.args]

\* repository.GetCostByPeriod, lines 111-136
BuildCostQuery(startDate, endDate, userID, serviceName) ==
    LET q0 == [preds |-> <<>>, args |-> <<>>, argCount |-> 1]
        q1 == IF startDate # EmptyStr
              THEN AddPredicate(q0, "start_date", ">=", startDate, TRUE) ELSE q0
        q2 == IF endDate # EmptyStr
              THEN AddPredicate(q1, "end_date", "IS NULL OR >=", endDate, TRUE) ELSE q1
        q3 == IF ~IsNil(userID)
              THEN AddPredicate(q2, "user_id", "=", Deref(userID), TRUE) ELSE q2
        q4 == IF ~IsNil(serviceName)
              THEN AddPredicate(q3, "service_name", "=", Deref(serviceName), FALSE) ELSE q3
    IN  [preds |-> q4.preds, args |-> q4.args]

(***************************************************************************)
(* The store's evaluation of the aggregate statement                       *)
(*   SELECT COALESCE(SUM(price), 0), COUNT( * ) FROM subscriptions         *)
(*   WHERE 1=1 AND ...                                                     *)
(***************************************************************************)
\* the statement binds: its placeholders are exactly $1..$n for n arguments
StatementBinds(q) ==
    {q.preds[i].ph : i \in 1..Len(q.preds)} = 1..Len(q.args)

\* mutant: the end_date predicate without "end_date IS NULL OR"
PredHoldsNoNull(row, p, args) ==
    LET v == args[p.ph] IN
    IF p.col = "start_date" THEN StrGE(row.start_date, v)
    ELSE IF p.col = "end_date"
         THEN ~IsNil(row.end_date) /\ StrGE(Deref(row.end_date), v)
    ELSE IF p.col = "user_id" THEN row.user_id = v
    ELSE row.service_name = v

\* one predicate on one row, its placeholder replaced by its argument
PredHolds(row, p, args) ==
    LET v == args[p.ph] IN
    IF p.col = "start_date" THEN StrGE(row.start_date, v)
    ELSE IF p.col = "end_date"
         THEN IsNil(row.end_date) \/ StrGE(Deref(row.end_date), v)
    ELSE IF p.col = "user_id" THEN row.user_id = v
    ELSE row.service_name = v

\* mutant: the predicates are joined by OR
SelectedAny(rows, q) ==
    {r \in rows : \E i \in 1..Len(q.preds) : PredHolds(r, q.preds[i], q.args)}

\* the rows the WHERE clause selects
Selected(rows, q) ==
    {r \in rows : \A i \in 1..Len(q.preds) : PredHolds(r, q.preds[i], q.args)}

\* SUM(price): NULL over no rows
RECURSIVE SumPrices(_)
SumPrices(rows) ==
    IF rows = {} THEN 0
    ELSE LET r == CHOOSE x \in rows : TRUE
         IN  r.price + SumPrices(rows \ {r})

SqlSum(rows) == IF rows = {} THEN NilPtr ELSE Ptr(SumPrices(rows))

\* COALESCE(v, d)
Coalesce(v, d) == IF IsNil(v) THEN d ELSE Deref(v)

\* mutant: SUM(price) without COALESCE; the NULL it yields cannot be scanned into int
SelectTotalCostNoCoalesce(rows) ==
    SqlSum(rows)

\* the first output column: COALESCE(SUM(price), 0)
SelectTotalCost(rows) ==
    Ptr(Coalesce(SqlSum(rows), 0))

(***************************************************************************)
(* repository.GetCostByPeriod: one QueryRow(...).Scan(&totalCost, &count). *)
(* dbFails is the environment's choice that the driver fails the read.     *)
(* stmts is the list of statements sent to the store.                      *)
(***************************************************************************)
\* .Scan(&totalCost, &count) of the one row (total, count) the statement q yields,
\* and the two returns (lines 139-146); a NULL total cannot be scanned into int
repoScanCost(q, total, count, dbFails) ==
    IF dbFails \/ ~StatementBinds(q)
    THEN [totalCost |-> 0, count |-> 0, err |-> ErrCalcCost, wraps |-> ErrDriver,
          stmts |-> <<q>>]
    ELSE IF IsNil(total)
    THEN [totalCost |-> 0, count |-> 0, err |-> ErrCalcCost, wraps |-> ErrScanNull,
          stmts |-> <<q>>]
    ELSE [totalCost |-> Deref(total), count |-> count, err |-> NoError,
          wraps |-> NoError, stmts |-> <<q>>]

\* the store's answer to the statement q over the selected rows sel
repoAggregate(q, sel, dbFails) ==
    repoScanCost(q, SelectTotalCost(sel), Cardinality(sel), dbFails)

\* r.db.QueryRow(ctx, query, args...) (line 139)
repoQueryRow(rows, q, dbFails) ==
    repoAggregate(q, Selected(rows, q), dbFails)

\* repository.GetCostByPeriod
repoGetCostByPeriod(rows, startDate, endDate, userID, serviceName, dbFails) ==
    repoQueryRow(rows, BuildCostQuery(startDate, endDate, userID, serviceName), dbFails)

(***************************************************************************)
(* service.GetCostByPeriod.  The result is a *CostResponse; repoCalls      *)
(* counts the calls of repo.GetCostByPeriod.                               *)
(***************************************************************************)
CostOutcome(result, err, wraps, repoCalls, stmts) ==
    [result |-> result, err |-> err, wraps |-> wraps,
     repoCalls |-> repoCalls, stmts |-> stmts]

\* mutant: a failed read is answered with the zero result and no error
serviceCostResultFallback(r) ==
    IF r.err # NoError
    THEN CostOutcome(Ptr([total_cost |-> 0, count |-> 0]), NoError, NoError, 1, r.stmts)
    ELSE CostOutcome(Ptr([total_cost |-> r.totalCost, count |-> r.count]),
                     NoError, NoError, 1, r.stmts)

\* the part of service.GetCostByPeriod after validation (lines 81-86)
serviceCostResult(r) ==
    IF r.err # NoError
    THEN CostOutcome(NilPtr, r.err, r.wraps, 1, r.stmts)
    ELSE CostOutcome(Ptr([total_cost |-> r.totalCost, count |-> r.count]),
                     NoError, NoError, 1, r.stmts)

\* the call of s.repo.GetCostByPeriod (line 81)
serviceCostRead(rows, startDate, endDate, userID, serviceName, dbFails) ==
    serviceCostResult(
        repoGetCostByPeriod(rows, startDate, endDate, userID, serviceName, dbFails))

\* mutant: a failed read is tried a second time
serviceGetCostByPeriodRetry(rows, startDate, endDate, userID, serviceName, dbFails) ==
    LET es == validateDateFormat(startDate)
        ee == validateDateFormat(endDate)
        o == serviceCostRead(rows, startDate, endDate, userID, serviceName, dbFails)
    IN  IF startDate = EmptyStr /\ endDate = EmptyStr
        THEN CostOutcome(NilPtr, ErrMissingDateRange, NoError, 0, <<>>)
        ELSE IF es # NoError
        THEN CostOutcome(NilPtr, es, NoError, 0, <<>>)
        ELSE IF endDate # EmptyStr /\ ee # NoError
        THEN CostOutcome(NilPtr, ee, NoError, 0, <<>>)
        ELSE IF o.err = NoError THEN o
        ELSE CostOutcome(o.result, o.err, o.wraps, 2, o.stmts \o o.stmts)

\* mutant: the check that at least one date is given is missing
serviceGetCostByPeriodNoRangeCheck(rows, startDate, endDate, userID, serviceName, dbFails) ==
    LET es == validateDateFormat(startDate)
        ee == validateDateFormat(endDate)
    IN  IF es # NoError
        THEN CostOutcome(NilPtr, es, NoError, 0, <<>>)
        ELSE IF endDate # EmptyStr /\ ee # NoError
        THEN CostOutcome(NilPtr, ee, NoError, 0, <<>>)
        ELSE serviceCostRead(rows, startDate, endDate, userID, serviceName, dbFails)

\* service.GetCostByPeriod, es and ee being the validator's answers for the
\* start and the end period
serviceCostChecked(es, ee, rows, startDate, endDate, userID, serviceName, dbFails) ==
    IF startDate = EmptyStr /\ endDate = EmptyStr
    THEN CostOutcome(NilPtr, ErrMissingDateRange, NoError, 0, <<>>)
    ELSE IF es # NoError
    THEN CostOutcome(NilPtr, es, NoError, 0, <<>>)
    ELSE IF endDate # EmptyStr /\ ee # NoError
    THEN CostOutcome(NilPtr, ee, NoError, 0, <<>>)
    ELSE serviceCostRead(rows, startDate, endDate, userID, serviceName, dbFails)

\* service.GetCostByPeriod
serviceGetCostByPeriod(rows, startDate, endDate, userID, serviceName, dbFails) ==
    serviceCostChecked(validateDateFormat(startDate), validateDateFormat(endDate),
                       rows, startDate, endDate, userID, serviceName, dbFails)

(***************************************************************************)
(* service.validateSubscriptionRequest and the single-row statements.      *)
(***************************************************************************)
\* mutant: a price of zero is accepted
requestCheckedZeroPrice(req, es, ee) ==
    IF req.service_name = EmptyStr THEN ErrServiceName
    ELSE IF req.price < 0 THEN ErrPrice
    ELSE IF req.user_id = UuidNil THEN ErrUserID
    ELSE IF es # NoError THEN es
    ELSE IF ~IsNil(req.end_date) /\ Deref(req.end_date) # EmptyStr /\ ee # NoError
    THEN ee
    ELSE NoError

\* es and ee are the validator's answers for the start and the end period
requestChecked(req, es, ee) ==
    IF req.service_name = EmptyStr THEN ErrServiceName
    ELSE IF req.price <= 0 THEN ErrPrice
    ELSE IF req.user_id = UuidNil THEN ErrUserID
    ELSE IF es # NoError THEN es
    ELSE IF ~IsNil(req.end_date) /\ Deref(req.end_date) # EmptyStr /\ ee # NoError
    THEN ee
    ELSE NoError

validateSubscriptionRequest(req) ==
    requestChecked(req, validateDateFormat(req.start_date),
                   validateDateFormat(Deref(req.end_date)))

\* the row with identifier id, as a set of at most one row (id is the primary key)
RowsWithId(rows, id) == {r \in rows : r.id = id}

\* an outcome of a single-row call: result is a *Subscription
RowOutcome(result, err, wraps, repoCalls, rows, next) ==
    [result |-> result, err |-> err, wraps |-> wraps, repoCalls |-> repoCalls,
     rows |-> rows, next |-> next]

\* mutant: the identifier is the smallest one no stored row has
repoCreateReuse(rows, next, req, dbFails) ==
    IF dbFails
    THEN RowOutcome(NilPtr, ErrCreate, ErrDriver, 1, rows, next)
    ELSE LET free == CHOOSE i \in 1..next :
                         /\ RowsWithId(rows, i) = {}
                         /\ \A j \in 1..(i - 1) : RowsWithId(rows, j) # {}
         IN  RowOutcome(Ptr(Row(free, req)), NoError, NoError, 1,
                        rows \cup {Row(free, req)}, next + 1)

\* repository.Create: INSERT ... RETURNING; the identifier comes from the sequence
repoCreate(rows, next, req, dbFails) ==
    IF dbFails
    THEN RowOutcome(NilPtr, ErrCreate, ErrDriver, 1, rows, next)
    ELSE RowOutcome(Ptr(Row(next, req)), NoError, NoError, 1,
                    rows \cup {Row(next, req)}, next + 1)

\* repository.Update: UPDATE ... WHERE id=$6 RETURNING; no row gives pgx.ErrNoRows
repoUpdate(rows, next, id, req, dbFails) ==
    IF dbFails
    THEN RowOutcome(NilPtr, ErrUpdate, ErrDriver, 1, rows, next)
    ELSE IF RowsWithId(rows, id) = {}
    THEN RowOutcome(NilPtr, ErrUpdate, ErrNoRows, 1, rows, next)
    ELSE RowOutcome(Ptr(UpdatedRow(CHOOSE r \in RowsWithId(rows, id) : TRUE, req)),
                    NoError, NoError, 1,
                    {IF r.id = id THEN UpdatedRow(r, req) ELSE r : r \in rows}, next)

\* mutant: RowsAffected() is not looked at
repoDeleteUnchecked(rows, next, id, dbFails) ==
    IF dbFails
    THEN RowOutcome(NilPtr, ErrDelete, ErrDriver, 1, rows, next)
    ELSE RowOutcome(NilPtr, NoError, NoError, 1, rows \ RowsWithId(rows, id), next)

\* repository.Delete: DELETE ... WHERE id=$1; RowsAffected() == 0 is "not found"
repoDelete(rows, next, id, dbFails) ==
    IF dbFails
    THEN RowOutcome(NilPtr, ErrDelete, ErrDriver, 1, rows, next)
    ELSE IF RowsWithId(rows, id) = {}
    THEN RowOutcome(NilPtr, ErrNotFound, NoError, 1, rows, next)
    ELSE RowOutcome(NilPtr, NoError, NoError, 1, rows \ RowsWithId(rows, id), next)

\* mutant: the row is inserted before the request is validated
serviceCreateCheckedLate(err, rows, next, req, dbFails) ==
    IF err # NoError
    THEN RowOutcome(NilPtr, err, NoError, 1, rows \cup {Row(next, req)}, next + 1)
    ELSE repoCreate(rows, next, req, dbFails)

\* mutant: the row that is read is removed from the table
repoGetByIDRemoving(rows, next, id, dbFails) ==
    IF dbFails
    THEN RowOutcome(NilPtr, ErrNotFound, ErrDriver, 1, rows, next)
    ELSE IF RowsWithId(rows, id) = {}
    THEN RowOutcome(NilPtr, ErrNotFound, ErrNoRows, 1, rows, next)
    ELSE RowOutcome(Ptr(CHOOSE r \in RowsWithId(rows, id) : TRUE), NoError, NoError, 1,
                    rows \ RowsWithId(rows, id), next)

\* repository.GetByID: SELECT ... WHERE id = $1; every error of Scan, also
\* pgx.ErrNoRows, is wrapped as "subscription not found: %w"
repoGetByID(rows, next, id, dbFails) ==
    IF dbFails
    THEN RowOutcome(NilPtr, ErrNotFound, ErrDriver, 1, rows, next)
    ELSE IF RowsWithId(rows, id) = {}
    THEN RowOutcome(NilPtr, ErrNotFound, ErrNoRows, 1, rows, next)
    ELSE RowOutcome(Ptr(CHOOSE r \in RowsWithId(rows, id) : TRUE), NoError, NoError, 1,
                    rows, next)

\* repository.GetAll: SELECT ... ORDER BY created_at DESC; the result is the
\* list of all rows, given here as the set of its elements (a non-nil, possibly
\* empty slice), nil on error
repoGetAll(rows, next, dbFails) ==
    IF dbFails
    THEN RowOutcome(NilPtr, ErrQuery, ErrDriver, 1, rows, next)
    ELSE RowOutcome(Ptr(rows), NoError, NoError, 1, rows, next)

\* service.CreateSubscription
serviceCreateChecked(err, rows, next, req, dbFails) ==
    IF err # NoError
    THEN RowOutcome(NilPtr, err, NoError, 0, rows, next)
    ELSE repoCreate(rows, next, req, dbFails)

serviceCreateSubscription(rows, next, req, dbFails) ==
    serviceCreateChecked(validateSubscriptionRequest(req), rows, next, req, dbFails)

\* service.UpdateSubscription
serviceUpdateChecked(err, rows, next, id, req, dbFails) ==
    IF err # NoError
    THEN RowOutcome(NilPtr, err, NoError, 0, rows, next)
    ELSE repoUpdate(rows, next, id, req, dbFails)

\* mutant: the end period is not copied into the request that is validated
toCreateRequestNoEnd(req) ==
    Req(req.service_name, req.price, req.user_id, req.start_date, NilPtr)

\* the CreateSubscriptionRequest built from an UpdateSubscriptionRequest
\* (lines 48-54)
toCreateRequest(req) ==
    Req(req.service_name, req.price, req.user_id, req.start_date, req.end_date)

serviceUpdateSubscription(rows, next, id, req, dbFails) ==
    serviceUpdateChecked(validateSubscriptionRequest(toCreateRequest(req)),
                         rows, next, id, req, dbFails)

\* service.DeleteSubscription
serviceDeleteSubscription(rows, next, id, dbFails) ==
    repoDelete(rows, next, id, dbFails)

\* service.GetAllSubscriptions
serviceGetAllSubscriptions(rows, next, dbFails) ==
    repoGetAll(rows, next, dbFails)

\* service.GetSubscriptionByID
serviceGetSubscriptionByID(rows, next, id, dbFails) ==
    repoGetByID(rows, next, id, dbFails)

(***************************************************************************)
(* Inputs of the model.                                                    *)
(***************************************************************************)
\* requests that pass validateSubscriptionRequest
ValidRequests ==
    { Req(Netflix, 100, U1, P_01_2025, NilPtr),
      Req(Spotify, 50, U1, P_01_2025, NilPtr),
      Req(Netflix, 100, U2, P_12_2024, Ptr(P_12_2025)),
      Req(Spotify, 50, U2, P_12_2024, Ptr(EmptyStr)) }

\* requests that fail it, for each of its checks
InvalidRequests ==
    { Req(EmptyStr, 100, U1, P_01_2025, NilPtr),
      Req(Netflix, 0, U1, P_01_2025, NilPtr),
      Req(Netflix, -1, U1, P_01_2025, NilPtr),
      Req(Netflix, 100, UuidNil, P_01_2025, NilPtr),
      Req(Netflix, 100, U1, S_2025_01, NilPtr),
      Req(Netflix, 100, U1, EmptyStr, NilPtr),
      Req(Netflix, 100, U1, P_01_2025, Ptr(S_01_25)) }

\* the requests sent to the service
ServiceRequests ==
    { Req(Netflix, 100, U1, P_01_2025, NilPtr),
      Req(Netflix, 100, U2, P_12_2024, Ptr(P_12_2025)),
      Req(Spotify, 50, U2, P_12_2024, Ptr(EmptyStr)) }
    \cup InvalidRequests

Ids == 1..MaxId

\* arguments of the service's GetCostByPeriod
CostStarts == {EmptyStr, P_01_2025, P_11_2024, P_13_2025, S_2025_01}
CostEnds == {EmptyStr, P_12_2025, S_01_25}
CostUsers == {NilPtr, Ptr(U1)}
CostNames == {NilPtr, Ptr(Netflix)}

\* arguments of the repository's GetCostByPeriod when it is called directly
\* (it validates nothing)
RepoStarts == {EmptyStr, P_01_2025, P_11_2024}
RepoEnds == {EmptyStr, P_12_2025}
RepoUsers == {NilPtr, Ptr(U1)}
RepoNames == {NilPtr, Ptr(EmptyStr), Ptr(Netflix), Ptr(netflix)}

\* query parameters of GET /v1/subscriptions/cost; "zz" is no UUID
HttpStarts == {EmptyStr, P_01_2025}
HttpEnds == {EmptyStr, P_12_2025}
HttpUsers == {EmptyStr, U1, <<122, 122>>}
HttpNames == {EmptyStr, Netflix}

\* all strings over the characters '1', '-', 'x' up to MaxStrLen, and the
\* strings named above: the inputs of the period validator
Alphabet == {49, 45, 120}
ValidatorInputs ==
    UNION {[1..k -> Alphabet] : k \in 0..MaxStrLen}
    \cup {P_01_2025, P_12_2025, P_06_2025, P_11_2024, P_12_2024, P_13_2025,
          S_2025_01, S_1_2025, S_01_25, S_sp_01_2025, S_01_2025_x, S_01_2025_nl,
          S_x_01_2025, S_0slash_2025, S_0colon_2025, S_01u2025, S_01_20a5}

(***************************************************************************)
(* The service's operations as actions.                                    *)
(***************************************************************************)
NoCall == [op |-> "none"]
\* the request of a call that has none
NoRequest == Req(EmptyStr, 0, UuidNil, EmptyStr, NilPtr)

Init ==
    /\ store = {}
    /\ nextId = 1
    /\ call = NoCall
    /\ created = {}
    /\ now = 0

\* the record of a call of the service's GetCostByPeriod with outcome o
CostCall(startDate, endDate, userID, serviceName, o) ==
    [op |-> "GetCostByPeriod", startDate |-> startDate, endDate |-> endDate,
     userID |-> userID, serviceName |-> serviceName, result |-> o.result,
     err |-> o.err, wraps |-> o.wraps, repoCalls |-> o.repoCalls, stmts |-> o.stmts]

\* the record of a single-row call with outcome o
RowCall(op, id, req, o) ==
    [op |-> op, id |-> id, req |-> req, result |-> o.result, err |-> o.err,
     wraps |-> o.wraps, repoCalls |-> o.repoCalls]

\* the store after a single-row call with outcome o; the sequence hands out
\* at most MaxId identifiers
Committed(o) ==
    /\ o.next <= MaxId + 1
    /\ store' = o.rows
    /\ nextId' = o.next
    /\ created' = created \cup {r.id : r \in o.rows \ store}
    /\ now' = now

GetCostByPeriod(startDate, endDate, userID, serviceName, dbFails) ==
    /\ call' = CostCall(startDate, endDate, userID, serviceName,
                        serviceGetCostByPeriod(store, startDate, endDate, userID,
                                               serviceName, dbFails))
    /\ UNCHANGED <<store, nextId, created, now>>

\* the outcome o of a single-row call takes effect
RowStep(op, id, req, o) ==
    /\ Committed(o)
    /\ call' = RowCall(op, id, req, o)

CreateSubscription(req, dbFails) ==
    /\ RowStep("CreateSubscription", 0, req,
               serviceCreateSubscription(store, nextId, req, dbFails))

UpdateSubscription(id, req, dbFails) ==
    /\ RowStep("UpdateSubscription", id, req,
               serviceUpdateSubscription(store, nextId, id, req, dbFails))

DeleteSubscription(id, dbFails) ==
    /\ RowStep("DeleteSubscription", id, NoRequest,
               serviceDeleteSubscription(store, nextId, id, dbFails))

GetAllSubscriptions(dbFails) ==
    /\ RowStep("GetAllSubscriptions", 0, NoRequest,
               serviceGetAllSubscriptions(store, nextId, dbFails))

GetSubscriptionByID(id, dbFails) ==
    /\ RowStep("GetSubscriptionByID", id, NoRequest,
               serviceGetSubscriptionByID(store, nextId, id, dbFails))

Next ==
    \/ \E s \in CostStarts, e \in CostEnds, u \in CostUsers, n \in CostNames,
          f \in BOOLEAN : GetCostByPeriod(s, e, u, n, f)
    \/ \E req \in ServiceRequests, f \in BOOLEAN : CreateSubscription(req, f)
    \/ \E id \in Ids, req \in ServiceRequests, f \in BOOLEAN : UpdateSubscription(id, req, f)
    \/ \E id \in Ids, f \in BOOLEAN : DeleteSubscription(id, f)
    \/ \E f \in BOOLEAN : GetAllSubscriptions(f)
    \/ \E id \in Ids, f \in BOOLEAN : GetSubscriptionByID(id, f)

Spec == Init /\ [][Next]_vars

(***************************************************************************)
(* The repository called directly, as its tests call it, and the HTTP      *)
(* handler of the cost endpoint.                                           *)
(***************************************************************************)
RepoCreate(req) ==
    /\ RowStep("repo.Create", 0, req, repoCreate(store, nextId, req, FALSE))

\* the record of a direct call of the repository's GetCostByPeriod with outcome r
RepoCostCall(startDate, endDate, userID, serviceName, r) ==
    [op |-> "repo.GetCostByPeriod", startDate |-> startDate, endDate |-> endDate,
     userID |-> userID, serviceName |-> serviceName, totalCost |-> r.totalCost,
     count |-> r.count, err |-> r.err, wraps |-> r.wraps, stmts |-> r.stmts]

RepoGetCostByPeriod(startDate, endDate, userID, serviceName, dbFails) ==
    /\ call' = RepoCostCall(startDate, endDate, userID, serviceName,
                            repoGetCostByPeriod(store, startDate, endDate, userID,
                                                serviceName, dbFails))
    /\ UNCHANGED <<store, nextId, created, now>>

\* uuid.Parse on the strings of HttpUsers: the identifiers parse to themselves
uuidParse(s) ==
    IF s \in {U1, U2, UuidNil} THEN [ok |-> TRUE, uuid |-> s]
    ELSE [ok |-> FALSE, uuid |-> UuidNil]

\* a Response written with an HTTP status; the error text is the pair of the
\* error's message and the message of the error it wraps
HttpResponse(code, status, data, err, wraps) ==
    [code |-> code, status |-> status, data |-> data, error |-> <<err, wraps>>]

\* the answer of Handler.GetCostByPeriod to the service's outcome o (lines 214-221)
handlerCostAnswer(o, userID, serviceNamePtr) ==
    IF o.err # NoError
    THEN [resp |-> HttpResponse(400, "error", NilPtr, o.err, o.wraps),
          serviceCalls |-> 1, userID |-> userID, serviceName |-> serviceNamePtr,
          stmts |-> o.stmts]
    ELSE [resp |-> HttpResponse(200, "success", o.result, NoError, NoError),
          serviceCalls |-> 1, userID |-> userID, serviceName |-> serviceNamePtr,
          stmts |-> o.stmts]

\* Handler.GetCostByPeriod once user_id is parsed (lines 208-221)
handlerCostParsed(rows, start_date, end_date, userID, serviceNamePtr, dbFails) ==
    handlerCostAnswer(
        serviceGetCostByPeriod(rows, start_date, end_date, userID, serviceNamePtr,
                               dbFails),
        userID, serviceNamePtr)

\* Handler.GetCostByPeriod
handlerGetCostByPeriod(rows, start_date, end_date, user_id, service_name, dbFails) ==
    IF user_id # EmptyStr /\ ~uuidParse(user_id).ok
    THEN [resp |-> HttpResponse(400, "error", NilPtr, "Invalid user ID format", NoError),
          serviceCalls |-> 0, userID |-> NilPtr, serviceName |-> NilPtr,
          stmts |-> <<>>]
    ELSE handlerCostParsed(rows, start_date, end_date,
                           IF user_id # EmptyStr THEN Ptr(uuidParse(user_id).uuid)
                           ELSE NilPtr,
                           IF service_name # EmptyStr THEN Ptr(service_name)
                           ELSE NilPtr,
                           dbFails)

\* the record of a request to the cost endpoint with the handler's outcome h
HandlerCostCall(start_date, end_date, user_id, service_name, h) ==
    [op |-> "Handler.GetCostByPeriod", start_date |-> start_date,
     end_date |-> end_date, user_id |-> user_id, service_name |-> service_name,
     resp |-> h.resp, serviceCalls |-> h.serviceCalls, userID |-> h.userID,
     serviceName |-> h.serviceName, stmts |-> h.stmts]

HandlerGetCostByPeriod(start_date, end_date, user_id, service_name, dbFails) ==
    /\ call' = HandlerCostCall(start_date, end_date, user_id, service_name,
                               handlerGetCostByPeriod(store, start_date, end_date,
                                                      user_id, service_name, dbFails))
    /\ UNCHANGED <<store, nextId, created, now>>

NextQuery ==
    \/ \E req \in ValidRequests : RepoCreate(req)
    \/ \E s \in RepoStarts, e \in RepoEnds, u \in RepoUsers, n \in RepoNames,
          f \in BOOLEAN : RepoGetCostByPeriod(s, e, u, n, f)
    \/ \E s \in HttpStarts, e \in HttpEnds, u \in HttpUsers, n \in HttpNames,
          f \in BOOLEAN : HandlerGetCostByPeriod(s, e, u, n, f)

\* the cost query through the repository and through the HTTP handler
SpecQuery == Init /\ [][NextQuery]_vars

(***************************************************************************)
(* The HTTP handlers.  A request body is                                   *)
(*   [kind |-> "broken"]   a body whose reading fails (io.ReadAll)         *)
(*   [kind |-> "text"]     bytes that are no JSON text                     *)
(*   [kind |-> "object", fields |-> f]  a JSON object; f maps the names of *)
(*                         its members to JSON values (string, number,     *)
(*                         null)                                           *)
(***************************************************************************)
\* JSON values: a string (its bytes), a number (its value), null
JStr(v) == [t |-> "string", v |-> v]
JNum(n) == [t |-> "number", v |-> <<n>>]
JNull == [t |-> "null", v |-> <<>>]

\* the member is absent or null: the field keeps its zero value
JAbsent(f, name) == name \notin DOMAIN f \/ f[name].t = "null"

\* json.Unmarshal into a string field
jsonString(f, name) ==
    IF JAbsent(f, name) THEN [ok |-> TRUE, v |-> EmptyStr]
    ELSE IF f[name].t = "string" THEN [ok |-> TRUE, v |-> f[name].v]
    ELSE [ok |-> FALSE, v |-> EmptyStr]

\* json.Unmarshal into an int field
jsonInt(f, name) ==
    IF JAbsent(f, name) THEN [ok |-> TRUE, v |-> 0]
    ELSE IF f[name].t = "number" THEN [ok |-> TRUE, v |-> f[name].v[1]]
    ELSE [ok |-> FALSE, v |-> 0]

\* json.Unmarshal into a uuid.UUID field (UnmarshalText parses the string)
jsonUUID(f, name) ==
    IF JAbsent(f, name) THEN [ok |-> TRUE, v |-> UuidNil]
    ELSE IF f[name].t = "string"
    THEN [ok |-> uuidParse(f[name].v).ok, v |-> uuidParse(f[name].v).uuid]
    ELSE [ok |-> FALSE, v |-> UuidNil]

\* json.Unmarshal into a *string field
jsonStringPtr(f, name) ==
    IF JAbsent(f, name) THEN [ok |-> TRUE, v |-> NilPtr]
    ELSE IF f[name].t = "string" THEN [ok |-> TRUE, v |-> Ptr(f[name].v)]
    ELSE [ok |-> FALSE, v |-> NilPtr]

\* the request decoded from the five members
jsonDecoded(name, price, user, start, end) ==
    [ok |-> name.ok /\ price.ok /\ user.ok /\ start.ok /\ end.ok,
     req |-> Req(name.v, price.v, user.v, start.v, end.v)]

\* json.Unmarshal(body, &req) for a CreateSubscriptionRequest or an
\* UpdateSubscriptionRequest (the two have the same fields)
jsonUnmarshal(body) ==
    IF body.kind # "object" THEN [ok |-> FALSE, req |-> NoRequest]
    ELSE jsonDecoded(jsonString(body.fields, "service_name"),
                     jsonInt(body.fields, "price"),
                     jsonUUID(body.fields, "user_id"),
                     jsonString(body.fields, "start_date"),
                     jsonStringPtr(body.fields, "end_date"))

\* the value of a string of decimal digits
RECURSIVE DecimalValue(_)
DecimalValue(ds) ==
    IF Len(ds) = 0 THEN 0
    ELSE DecimalValue(SubSeq(ds, 1, Len(ds) - 1)) * 10 + (ds[Len(ds)] - 48)

\* the digits of a decimal numeral after its optional sign
Unsigned(s) == IF Len(s) > 0 /\ s[1] \in {43, 45} THEN Tail(s) ELSE s

\* strconv.Atoi for numerals that fit an int: an optional sign and at least
\* one decimal digit
strconvAtoi(s) ==
    IF Len(Unsigned(s)) > 0 /\ \A i \in 1..Len(Unsigned(s)) : IsDigit(Unsigned(s)[i])
    THEN [ok |-> TRUE,
          v |-> IF s[1] = 45 THEN 0 - DecimalValue(Unsigned(s))
                ELSE DecimalValue(Unsigned(s))]
    ELSE [ok |-> FALSE, v |-> 0]

\* what a handler did: the response written, the number of calls of the
\* service, and the table and the sequence afterwards
Handled(resp, serviceCalls, rows, next) ==
    [resp |-> resp, serviceCalls |-> serviceCalls, rows |-> rows, next |-> next]

\* a response written before the service is called
Refused(code, text, rows, next) ==
    Handled(HttpResponse(code, "error", NilPtr, text, NoError), 0, rows, next)

\* Handler.GetSubscriptions
handlerGetSubscriptionsAnswer(o) ==
    IF o.err # NoError
    THEN Handled(HttpResponse(500, "error", NilPtr, "Failed to fetch subscriptions",
                              NoError), 1, o.rows, o.next)
    ELSE Handled(HttpResponse(200, "success", o.result, NoError, NoError), 1,
                 o.rows, o.next)

handlerGetSubscriptions(rows, next, dbFails) ==
    handlerGetSubscriptionsAnswer(serviceGetAllSubscriptions(rows, next, dbFails))

\* mutant: a created subscription is answered with 200
handlerCreateAnswerOK(o) ==
    IF o.err # NoError
    THEN Handled(HttpResponse(400, "error", NilPtr, o.err, o.wraps), 1, o.rows, o.next)
    ELSE Handled(HttpResponse(200, "success", o.result, NoError, NoError), 1,
                 o.rows, o.next)

\* Handler.CreateSubscription
handlerCreateAnswer(o) ==
    IF o.err # NoError
    THEN Handled(HttpResponse(400, "error", NilPtr, o.err, o.wraps), 1, o.rows, o.next)
    ELSE Handled(HttpResponse(201, "success", o.result, NoError, NoError), 1,
                 o.rows, o.next)

handlerCreateDecoded(d, rows, next, dbFails) ==
    IF ~d.ok THEN Refused(400, "Invalid JSON", rows, next)
    ELSE handlerCreateAnswer(serviceCreateSubscription(rows, next, d.req, dbFails))

handlerCreateSubscription(rows, next, body, dbFails) ==
    IF body.kind = "broken" THEN Refused(400, "Invalid request body", rows, next)
    ELSE handlerCreateDecoded(jsonUnmarshal(body), rows, next, dbFails)

\* Handler.UpdateSubscription
handlerUpdateAnswer(o) ==
    IF o.err # NoError
    THEN Handled(HttpResponse(404, "error", NilPtr, o.err, o.wraps), 1, o.rows, o.next)
    ELSE Handled(HttpResponse(200, "success", o.result, NoError, NoError), 1,
                 o.rows, o.next)

handlerUpdateDecoded(id, d, rows, next, dbFails) ==
    IF ~d.ok THEN Refused(400, "Invalid JSON", rows, next)
    ELSE handlerUpdateAnswer(serviceUpdateSubscription(rows, next, id, d.req, dbFails))

handlerUpdateParsed(id, rows, next, body, dbFails) ==
    IF ~id.ok THEN Refused(400, "Invalid subscription ID", rows, next)
    ELSE IF body.kind = "broken" THEN Refused(400, "Invalid request body", rows, next)
    ELSE handlerUpdateDecoded(id.v, jsonUnmarshal(body), rows, next, dbFails)

handlerUpdateSubscription(rows, next, idParam, body, dbFails) ==
    handlerUpdateParsed(strconvAtoi(idParam), rows, next, body, dbFails)

\* Handler.DeleteSubscription
handlerDeleteAnswer(o) ==
    IF o.err # NoError
    THEN Handled(HttpResponse(404, "error", NilPtr, o.err, o.wraps), 1, o.rows, o.next)
    ELSE Handled(HttpResponse(200, "success",
                              Ptr([message |-> "Subscription deleted"]),
                              NoError, NoError), 1, o.rows, o.next)

\* mutant: the error of strconv.Atoi is ignored
handlerDeleteParsedAnyId(id, rows, next, dbFails) ==
    handlerDeleteAnswer(serviceDeleteSubscription(rows, next, id.v, dbFails))

handlerDeleteParsed(id, rows, next, dbFails) ==
    IF ~id.ok THEN Refused(400, "Invalid subscription ID", rows, next)
    ELSE handlerDeleteAnswer(serviceDeleteSubscription(rows, next, id.v, dbFails))

handlerDeleteSubscription(rows, next, idParam, dbFails) ==
    handlerDeleteParsed(strconvAtoi(idParam), rows, next, dbFails)

\* the bodies sent: unreadable, "invalid json", two valid subscriptions, an
\* empty object, price as a string, a user_id that is no UUID
B_Netflix ==
    [kind |-> "object",
     fields |-> [service_name |-> JStr(Netflix), price |-> JNum(100),
                 user_id |-> JStr(U1), start_date |-> JStr(P_01_2025)]]
B_Spotify ==
    [kind |-> "object",
     fields |-> [service_name |-> JStr(Spotify), price |-> JNum(50),
                 user_id |-> JStr(U1), start_date |-> JStr(P_01_2025),
                 end_date |-> JNull]]
B_Empty == [kind |-> "object", fields |-> [unknown |-> JNull]]
B_PriceString ==
    [kind |-> "object",
     fields |-> [service_name |-> JStr(Netflix), price |-> JStr(<<49, 48, 48>>),
                 user_id |-> JStr(U1), start_date |-> JStr(P_01_2025)]]
B_BadUser ==
    [kind |-> "object",
     fields |-> [service_name |-> JStr(Netflix), price |-> JNum(100),
                 user_id |-> JStr(<<122, 122>>), start_date |-> JStr(P_01_2025)]]
HttpBodies ==
    {[kind |-> "broken"], [kind |-> "text"], B_Netflix, B_Spotify, B_Empty,
     B_PriceString, B_BadUser}

\* the {id} of the path: "1", "2", "-1", "x1"
HttpIds == {<<49>>, <<50>>, <<45, 49>>, <<120, 49>>}

\* the record of a request with the handler's outcome h
HttpCall(op, idParam, body, h) ==
    [op |-> op, idParam |-> idParam, body |-> body, resp |-> h.resp,
     serviceCalls |-> h.serviceCalls]

\* the handler's outcome h takes effect
HttpStep(op, idParam, body, h) ==
    /\ Committed(h)
    /\ call' = HttpCall(op, idParam, body, h)

NoBody == [kind |-> "none"]

HandlerGetSubscriptions(dbFails) ==
    /\ HttpStep("Handler.GetSubscriptions", EmptyStr, NoBody,
                handlerGetSubscriptions(store, nextId, dbFails))

HandlerCreateSubscription(body, dbFails) ==
    /\ HttpStep("Handler.CreateSubscription", EmptyStr, body,
                handlerCreateSubscription(store, nextId, body, dbFails))

HandlerUpdateSubscription(idParam, body, dbFails) ==
    /\ HttpStep("Handler.UpdateSubscription", idParam, body,
                handlerUpdateSubscription(store, nextId, idParam, body, dbFails))

HandlerDeleteSubscription(idParam, dbFails) ==
    /\ HttpStep("Handler.DeleteSubscription", idParam, NoBody,
                handlerDeleteSubscription(store, nextId, idParam, dbFails))

NextHttp ==
    \/ \E f \in BOOLEAN : HandlerGetSubscriptions(f)
    \/ \E b \in HttpBodies, f \in BOOLEAN : HandlerCreateSubscription(b, f)
    \/ \E i \in HttpIds, b \in HttpBodies, f \in BOOLEAN :
          HandlerUpdateSubscription(i, b, f)
    \/ \E i \in HttpIds, f \in BOOLEAN : HandlerDeleteSubscription(i, f)
    \/ \E s \in HttpStarts, e \in HttpEnds, u \in HttpUsers, n \in HttpNames,
          f \in BOOLEAN : HandlerGetCostByPeriod(s, e, u, n, f)

\* the five routes of RegisterRoutes
SpecHttp == Init /\ [][NextHttp]_vars

(***************************************************************************)
(* Concurrent requests.  Each request in flight runs GetCostByPeriod in    *)
(* its own goroutine: it validates its periods and builds its statement    *)
(* (Begin), sends the one statement to the store (Read) and returns        *)
(* (Return).  Between these steps other requests take theirs and the       *)
(* single-row statements of create, update and delete change the table.    *)
(* call maps each request in flight to its local variables.                *)
(***************************************************************************)
\* the requests in flight at one time
Procs == {1, 2}

\* the filters of the concurrent cost calls: <<start, end, user, service>>
ConcFilters ==
    { <<P_01_2025, EmptyStr, Ptr(U1), NilPtr>>,
      <<P_11_2024, P_12_2025, NilPtr, Ptr(Netflix)>>,
      <<P_01_2025, S_01_25, NilPtr, NilPtr>> }

\* the rows written meanwhile
ConcRequests ==
    { Req(Netflix, 100, U1, P_01_2025, NilPtr),
      Req(Spotify, 50, U1, P_12_2024, Ptr(P_12_2025)) }

\* no statement built yet
NoStatement == [preds |-> <<>>, args |-> <<>>]

\* the local variables of a request: pc is "idle", "built" (statement built,
\* not yet sent) or "done"; seen is history, the table when the statement ran
Local(pc, filters, q, result, err, seen) ==
    [pc |-> pc, filters |-> filters, q |-> q, result |-> result, err |-> err,
     seen |-> seen]

Idle == Local("idle", <<>>, NoStatement, NilPtr, NoError, {})

InitConc ==
    /\ store = {}
    /\ nextId = 1
    /\ created = {}
    /\ now = 0
    /\ call = [p \in Procs |-> Idle]

\* the error of the validation in service.GetCostByPeriod (lines 67-79)
costValidation(es, ee, startDate, endDate) ==
    IF startDate = EmptyStr /\ endDate = EmptyStr THEN ErrMissingDateRange
    ELSE IF es # NoError THEN es
    ELSE IF endDate # EmptyStr /\ ee # NoError THEN ee
    ELSE NoError

\* the locals of a request after validation and the building of the statement
Begun(f, err) ==
    IF err # NoError
    THEN Local("done", f, NoStatement, NilPtr, err, {})
    ELSE Local("built", f, BuildCostQuery(f[1], f[2], f[3], f[4]), NilPtr, NoError, {})

Begin(p, f) ==
    /\ call[p].pc = "idle"
    /\ call' = [call EXCEPT ![p] =
                   Begun(f, costValidation(validateDateFormat(f[1]),
                                           validateDateFormat(f[2]), f[1], f[2]))]
    /\ UNCHANGED <<store, nextId, created, now>>

\* mutant: query and args are variables shared by the requests, so that the
\* statement sent is the one built last by the other request, if any
sharedStatement(locals, p) ==
    IF \E o \in Procs \ {p} : locals[o].pc = "built"
    THEN locals[CHOOSE o \in Procs \ {p} : locals[o].pc = "built"].q
    ELSE locals[p].q

\* query, args and argCount are local variables of the invocation
ownStatement(locals, p) ==
    locals[p].q

\* the locals of a request after its read with outcome o of the table rows
ReadDone(l, o, rows) ==
    Local("done", l.filters, l.q, o.result, o.err, rows)

Read(p, dbFails) ==
    /\ call[p].pc = "built"
    /\ call' = [call EXCEPT ![p] =
                   ReadDone(call[p],
                            serviceCostResult(
                                repoQueryRow(store, ownStatement(call, p), dbFails)),
                            store)]
    /\ UNCHANGED <<store, nextId, created, now>>

Return(p) ==
    /\ call[p].pc = "done"
    /\ call' = [call EXCEPT ![p] = Idle]
    /\ UNCHANGED <<store, nextId, created, now>>

\* a single-row statement of another request with outcome o
Written(o) ==
    /\ Committed(o)
    /\ UNCHANGED call

ConcCreate(req) ==
    /\ Written(serviceCreateSubscription(store, nextId, req, FALSE))

ConcUpdate(id, req) ==
    /\ Written(serviceUpdateSubscription(store, nextId, id, req, FALSE))

ConcDelete(id) ==
    /\ Written(serviceDeleteSubscription(store, nextId, id, FALSE))

NextConc ==
    \/ \E p \in Procs, f \in ConcFilters : Begin(p, f)
    \/ \E p \in Procs, d \in BOOLEAN : Read(p, d)
    \/ \E p \in Procs : Return(p)
    \/ \E req \in ConcRequests : ConcCreate(req)
    \/ \E id \in Ids, req \in ConcRequests : ConcUpdate(id, req)
    \/ \E id \in Ids : ConcDelete(id)

SpecConc == InitConc /\ [][NextConc]_vars

(***************************************************************************)
(* One request given to CreateSubscription and then to UpdateSubscription  *)
(* of a stored row: a first row is created (Seed), the request is created  *)
(* (CompareCreate), and the first row is updated with it (CompareUpdate).  *)
(***************************************************************************)
\* the field values the requests are made of
ReqNames == {EmptyStr, Netflix}
ReqPrices == {-1, 0, 100}
ReqUsers == {UuidNil, U1}
ReqStarts == {EmptyStr, S_2025_01, P_01_2025}
ReqEnds == {NilPtr, Ptr(EmptyStr), Ptr(S_01_25), Ptr(P_12_2025)}

\* the request of the first row
SeedRequest == Req(Spotify, 50, U2, P_12_2024, NilPtr)

\* no call made yet
NoOutcome == RowCall("none", 0, NoRequest, RowOutcome(NilPtr, NoError, NoError, 0, {}, 1))

InitRequests ==
    /\ store = {}
    /\ nextId = 1
    /\ created = {}
    /\ now = 0
    /\ \E n \in ReqNames, p \in ReqPrices, u \in ReqUsers, s \in ReqStarts,
          e \in ReqEnds :
          call = [op |-> "compare", phase |-> "new", req |-> Req(n, p, u, s, e),
                  create |-> NoOutcome, update |-> NoOutcome, before |-> {}]

Seeded(o) ==
    /\ Committed(o)
    /\ call' = [call EXCEPT !.phase = "seeded"]

Seed ==
    /\ call.phase = "new"
    /\ Seeded(serviceCreateSubscription(store, nextId, SeedRequest, FALSE))

CreateCompared(o) ==
    /\ Committed(o)
    /\ call' = [call EXCEPT !.phase = "created",
                            !.create = RowCall("CreateSubscription", 0, call.req, o)]

CompareCreate ==
    /\ call.phase = "seeded"
    /\ CreateCompared(serviceCreateSubscription(store, nextId, call.req, FALSE))

UpdateCompared(o) ==
    /\ Committed(o)
    /\ call' = [call EXCEPT !.phase = "updated",
                            !.update = RowCall("UpdateSubscription", 1, call.req, o),
                            !.before = store]

CompareUpdate ==
    /\ call.phase = "created"
    /\ UpdateCompared(serviceUpdateSubscription(store, nextId, 1, call.req, FALSE))

NextRequests == Seed \/ CompareCreate \/ CompareUpdate

SpecRequests == InitRequests /\ [][NextRequests]_vars

(***************************************************************************)
(* The single-row statements while the store's clock advances.             *)
(***************************************************************************)
\* the request of the creates and the request of the updates
ClockCreate == Req(Netflix, 100, U1, P_01_2025, NilPtr)
ClockUpdate == Req(Spotify, 50, U2, P_12_2024, Ptr(P_12_2025))

\* a second passes
Tick ==
    /\ now < MaxTime
    /\ now' = now + 1
    /\ UNCHANGED <<store, nextId, call, created>>

NextClock ==
    \/ Tick
    \/ CreateSubscription(ClockCreate, FALSE)
    \/ \E id \in Ids, f \in BOOLEAN : UpdateSubscription(id, ClockUpdate, f)
    \/ \E id \in Ids : DeleteSubscription(id, FALSE)

SpecClock == Init /\ [][NextClock]_vars

(***************************************************************************)
(* The period validator applied to one string.                             *)
(***************************************************************************)
InitValidate ==
    /\ store = {}
    /\ nextId = 1
    /\ created = {}
    /\ now = 0
    /\ \E s \in ValidatorInputs :
          call = [op |-> "validateDateFormat", date |-> s, done |-> FALSE,
                  err |-> NoError]

ValidateDate ==
    /\ call.op = "validateDateFormat"
    /\ ~call.done
    /\ call' = [call EXCEPT !.done = TRUE, !.err = validateDateFormat(call.date)]
    /\ UNCHANGED <<store, nextId, created, now>>

NextValidate == ValidateDate

SpecValidate == InitValidate /\ [][NextValidate]_vars

(***************************************************************************)
(* Properties.                                                             *)
(***************************************************************************)
ValidationErrors == {ErrMissingDateRange, ErrDateEmpty, ErrDateFormat}

IsServiceCost == call.op = "GetCostByPeriod"
IsRepoCost == call.op = "repo.GetCostByPeriod"
IsHandlerCost == call.op = "Handler.GetCostByPeriod"

\* C1: a call of the service's GetCostByPeriod invokes the repository's
\* aggregate read zero times (and sends no statement) when it returns a
\* validation error, and exactly once (one statement, never a second try, no
\* other statement) otherwise, also when the read fails.
C1_ReadOnceUnlessInvalid ==
    IsServiceCost =>
        IF call.err \in ValidationErrors
        THEN call.repoCalls = 0 /\ call.stmts = <<>>
        ELSE call.repoCalls = 1 /\ Len(call.stmts) = 1

\* a call whose single read failed
C1_Witness ==
    /\ IsServiceCost
    /\ call.err = ErrCalcCost
    /\ call.repoCalls = 1
    /\ store # {}

\* C2: GetCostByPeriod with an empty start and an empty end period fails with
\* "at least one date parameter is required" and returns a nil result,
\* whatever the user and service name filters are.
C2_MissingDateRange ==
    (IsServiceCost /\ call.startDate = EmptyStr /\ call.endDate = EmptyStr) =>
        (call.err = ErrMissingDateRange /\ call.result = NilPtr)

\* such a call with both optional filters given
C2_Witness ==
    /\ IsServiceCost
    /\ call.startDate = EmptyStr /\ call.endDate = EmptyStr
    /\ call.userID # NilPtr /\ call.serviceName # NilPtr
    /\ call.err = ErrMissingDateRange

\* C3: GetCostByPeriod with an empty start period and a well-formed end
\* period passes validation and reaches the store once, with the end_date
\* predicate as the only temporal predicate, and returns a cost result when
\* the read succeeds.
C3_EndPeriodAloneIsEnough ==
    (IsServiceCost /\ call.startDate = EmptyStr /\ call.endDate = P_12_2025) =>
        /\ call.err \notin ValidationErrors
        /\ call.repoCalls = 1
        /\ Len(call.stmts) = 1
        /\ \A i \in 1..Len(call.stmts[1].preds) :
              call.stmts[1].preds[i].col # "start_date"
        /\ \E i \in 1..Len(call.stmts[1].preds) :
              call.stmts[1].preds[i].col = "end_date"
        /\ (call.err = NoError => call.result # NilPtr)

\* two digits, a hyphen, four digits
WellFormedPeriod(s) ==
    /\ Len(s) = 7
    /\ \A i \in {1, 2, 4, 5, 6, 7} : s[i] \in 48..57
    /\ s[3] = 45

ValidateDone == call.op = "validateDateFormat" /\ call.done

\* C4: the period validator accepts a string exactly when it is two decimal
\* digits, a hyphen and four decimal digits; it rejects "", "2025-01",
\* "1-2025", "01-25" and a period with characters before or after it, and
\* accepts "13-2025" (the two digits are not checked to be a month).
C4_ValidatorAcceptsExactlyPeriods ==
    ValidateDone =>
        /\ (call.err = NoError) <=> WellFormedPeriod(call.date)
        /\ call.date \in {EmptyStr, S_2025_01, S_1_2025, S_01_25, S_sp_01_2025,
                          S_01_2025_x, S_01_2025_nl, S_x_01_2025}
              => call.err # NoError
        /\ call.date = P_13_2025 => call.err = NoError

\* "13-2025" was validated and accepted
C4_Witness ==
    ValidateDone /\ call.date = P_13_2025 /\ call.err = NoError

\* C5 as stated: GetCostByPeriod with start period "13-2025" and an empty end
\* period fails with the invalid-period-format error.
C5_Original ==
    (IsServiceCost /\ call.startDate = P_13_2025 /\ call.endDate = EmptyStr) =>
        call.err = ErrDateFormat

\* C5 amended: GetCostByPeriod with start period "13-2025" and an empty end
\* period passes validation (the month is not range-checked): it reads the
\* store once and returns a cost result, or the store's error when the read
\* fails; it never fails with a validation error.
C5_Month13PassesValidation ==
    (IsServiceCost /\ call.startDate = P_13_2025 /\ call.endDate = EmptyStr) =>
        /\ call.err \notin ValidationErrors
        /\ call.repoCalls = 1
        /\ call.err = NoError => call.result # NilPtr
        /\ call.err # NoError => (call.err = ErrCalcCost /\ call.result = NilPtr)

\* such a call that returned a cost result
C5_Witness ==
    /\ IsServiceCost
    /\ call.startDate = P_13_2025 /\ call.endDate = EmptyStr
    /\ call.err = NoError
    /\ call.result # NilPtr

\* the statement of the last cost call, when one was sent
SentStatement == call.stmts[1]

\* the filters the repository was called with, in the order start, end, user,
\* service, each as a list of zero or one value
FilterValues(startDate, endDate, userID, serviceName) ==
    << IF startDate # EmptyStr THEN <<startDate>> ELSE <<>>,
       IF endDate # EmptyStr THEN <<endDate>> ELSE <<>>,
       userID,
       serviceName >>

FilterColumns == <<"start_date", "end_date", "user_id", "service_name">>

\* the values, and the columns, of the filters that are present, in that order
PresentValues(f) == f[1] \o f[2] \o f[3] \o f[4]
PresentColumns(f) ==
    LET col(i) == IF Len(f[i]) = 0 THEN <<>> ELSE <<FilterColumns[i]>>
    IN  col(1) \o col(2) \o col(3) \o col(4)

\* C6: for every combination of present and absent filters the statement
\* built by the repository's GetCostByPeriod uses the placeholders $1..$n in
\* order, without gap or repeat, n is the number of arguments, the i-th
\* placeholder stands in the predicate of the i-th argument, and the
\* arguments are the present filters in the order start, end, user, service.
C6_PlaceholdersInLockStep ==
    IsRepoCost =>
        LET q == SentStatement
            f == FilterValues(call.startDate, call.endDate, call.userID,
                              call.serviceName)
        IN  /\ Len(call.stmts) = 1
            /\ Len(q.preds) = Len(q.args)
            /\ \A i \in 1..Len(q.preds) : q.preds[i].ph = i
            /\ q.args = PresentValues(f)
            /\ [i \in 1..Len(q.preds) |-> q.preds[i].col] = PresentColumns(f)

\* a statement with all four filters: arguments [start, end, user, service]
C6_Witness ==
    /\ IsRepoCost
    /\ SentStatement.args = <<P_01_2025, P_12_2025, U1, Netflix>>
    /\ Len(SentStatement.preds) = 4

HasColumn(q, col) == \E i \in 1..Len(q.preds) : q.preds[i].col = col

\* C7 as stated: the service_name predicate is in the statement exactly when
\* a non-empty service name is supplied; a pointer to the empty string adds
\* no predicate and no argument.
C7_Original ==
    IsRepoCost =>
        (HasColumn(SentStatement, "service_name")
            <=> (call.serviceName # NilPtr /\ call.serviceName # Ptr(EmptyStr)))

\* C7 amended: the repository adds the service_name predicate (and its one
\* argument) exactly when the service-name pointer is not nil, also when it
\* points to the empty string; the HTTP handler passes nil for an empty
\* service_name query parameter, so through the handler the predicate is in
\* the statement exactly when the parameter is non-empty.
C7_PredicateIffPointerGiven ==
    /\ IsRepoCost =>
          LET q == SentStatement IN
          /\ HasColumn(q, "service_name") <=> call.serviceName # NilPtr
          /\ call.serviceName # NilPtr =>
                /\ q.preds[Len(q.preds)].col = "service_name"
                /\ q.args[q.preds[Len(q.preds)].ph] = call.serviceName[1]
          /\ Len(q.args) = (IF call.startDate = EmptyStr THEN 0 ELSE 1)
                           + (IF call.endDate = EmptyStr THEN 0 ELSE 1)
                           + Len(call.userID) + Len(call.serviceName)
    /\ (IsHandlerCost /\ Len(call.stmts) > 0) =>
          /\ HasColumn(SentStatement, "service_name") <=> call.service_name # EmptyStr
          /\ call.serviceName = (IF call.service_name = EmptyStr THEN NilPtr
                                 ELSE Ptr(call.service_name))

\* the repository called with a pointer to "": the predicate is there
C7_Witness ==
    /\ IsRepoCost
    /\ call.serviceName = Ptr(EmptyStr)
    /\ HasColumn(SentStatement, "service_name")
    /\ store # {}

\* a >= b in the order of character strings (byte by byte, a proper prefix first)
LexGE(a, b) ==
    \/ a = b
    \/ \E k \in 1..Len(a) :
          /\ k <= Len(b) + 1
          /\ \A j \in 1..(k - 1) : a[j] = b[j]
          /\ (k = Len(b) + 1 \/ a[k] > b[k])

\* the conjunction of the predicates of the filters that are present
RowMatches(r, startDate, endDate, userID, serviceName) ==
    /\ startDate # EmptyStr => LexGE(r.start_date, startDate)
    /\ endDate # EmptyStr => (r.end_date = NilPtr \/ LexGE(r.end_date[1], endDate))
    /\ userID # NilPtr => r.user_id = userID[1]
    /\ serviceName # NilPtr => r.service_name = serviceName[1]

Matching(startDate, endDate, userID, serviceName) ==
    {r \in store : RowMatches(r, startDate, endDate, userID, serviceName)}

\* the sum of the prices of a set of rows, taken identifier by identifier
RECURSIVE PriceUpTo(_, _)
PriceUpTo(rows, n) ==
    IF n = 0 THEN 0
    ELSE PriceUpTo(rows, n - 1)
         + (IF \E r \in rows : r.id = n
            THEN (CHOOSE r \in rows : r.id = n).price ELSE 0)

TotalPrice(rows) == PriceUpTo(rows, nextId)

\* C8: a successful GetCostByPeriod returns as total_cost the sum of the
\* prices, and as count the number, of exactly the rows that satisfy every
\* present predicate: start_date >= start and (end_date absent or end_date >=
\* end) in string order, user_id equal, service_name equal case-sensitively;
\* a row without end period is never excluded by the end-period filter.
C8_AggregateOverMatchingRows ==
    /\ (IsRepoCost /\ call.err = NoError) =>
          LET rows == Matching(call.startDate, call.endDate, call.userID,
                               call.serviceName)
          IN  /\ call.totalCost = TotalPrice(rows)
              /\ call.count = Cardinality(rows)
              /\ call.userID = NilPtr /\ call.serviceName = NilPtr
                    /\ call.startDate = EmptyStr
                    => call.count >= Cardinality({r \in store : r.end_date = NilPtr})
    /\ (IsHandlerCost /\ call.resp.code = 200) =>
          LET rows == Matching(call.start_date, call.end_date, call.userID,
                               call.serviceName)
          IN  call.resp.data = Ptr([total_cost |-> TotalPrice(rows),
                                    count |-> Cardinality(rows)])

\* the scenario of the repository test: two rows of one user priced 100 and 50,
\* start 01-2025, no end period, queried with 01-2025, 12-2025 and that user
C8_Witness ==
    /\ IsRepoCost
    /\ store = {Row(1, Req(Netflix, 100, U1, P_01_2025, NilPtr)),
                Row(2, Req(Spotify, 50, U1, P_01_2025, NilPtr))}
    /\ call.startDate = P_01_2025 /\ call.endDate = P_12_2025
    /\ call.userID = Ptr(U1) /\ call.serviceName = NilPtr
    /\ call.err = NoError
    /\ call.totalCost = 150 /\ call.count = 2

\* C9: when no stored row matches the filters (also when the store is empty)
\* GetCostByPeriod succeeds with total_cost 0 and count 0; the absence of
\* rows is never an error or a null aggregate.  (Only a failure of the read
\* itself, which wraps the driver's error, is an error.)
C9_ZeroRowsGiveZero ==
    (IsRepoCost /\ Matching(call.startDate, call.endDate, call.userID,
                            call.serviceName) = {}) =>
        \/ call.err = NoError /\ call.totalCost = 0 /\ call.count = 0
        \/ call.err = ErrCalcCost /\ call.wraps = ErrDriver

\* rows are stored, none matches, and the call succeeded with 0 and 0
C9_Witness ==
    /\ IsRepoCost
    /\ store # {}
    /\ Matching(call.startDate, call.endDate, call.userID, call.serviceName) = {}
    /\ call.err = NoError /\ call.totalCost = 0 /\ call.count = 0

\* C10: the start filter compares MM-YYYY values as character strings, not
\* as months: a row is counted exactly when its start_date string is >= the
\* filter; a row starting 01-2025 is not matched by the filter 11-2024 and a
\* row starting 12-2024 is matched by the filter 01-2025.
C10_StartFilterIsStringOrder ==
    (IsRepoCost /\ call.err = NoError /\ call.endDate = EmptyStr
        /\ call.userID = NilPtr /\ call.serviceName = NilPtr
        /\ call.startDate # EmptyStr) =>
        /\ call.count = Cardinality({r \in store : LexGE(r.start_date, call.startDate)})
        /\ call.startDate = P_11_2024 =>
              call.count = Cardinality({r \in store : r.start_date # P_01_2025})
        /\ call.startDate = P_01_2025 =>
              call.count >= Cardinality({r \in store : r.start_date = P_12_2024})
                            + Cardinality({r \in store : r.start_date = P_01_2025})

\* a row starting 01-2025 is stored and the filter 11-2024 counts no row
C10_Witness ==
    /\ IsRepoCost
    /\ call.err = NoError
    /\ call.startDate = P_11_2024 /\ call.endDate = EmptyStr
    /\ call.userID = NilPtr /\ call.serviceName = NilPtr
    /\ \E r \in store : r.start_date = P_01_2025
    /\ call.count = 0

\* C11: when the store fails the aggregate read, the service's
\* GetCostByPeriod returns a nil result and the error "failed to calculate
\* cost" wrapping the store's error; no call made while the store fails
\* returns a result, be it the zero result or any other (a call that fails
\* validation returns its validation error and a nil result as well).
C11_FailedReadIsAnError ==
    [][(/\ call'.op = "GetCostByPeriod"
        /\ GetCostByPeriod(call'.startDate, call'.endDate, call'.userID,
                           call'.serviceName, TRUE)) =>
              /\ call'.result = NilPtr
              /\ call'.err # NoError
              /\ call'.err \notin ValidationErrors =>
                    (call'.err = ErrCalcCost /\ call'.wraps = ErrDriver)]_vars

\* the read failed although stored rows match the filters of the call
C11_Witness ==
    /\ IsServiceCost
    /\ call.err = ErrCalcCost /\ call.wraps = ErrDriver
    /\ call.result = NilPtr
    /\ call.startDate = P_01_2025 /\ call.endDate = P_12_2025
    /\ Matching(call.startDate, call.endDate, call.userID, call.serviceName) # {}

\* C12: on the cost endpoint a missing date range or an invalid period is
\* answered with a client error (4xx), and a failed read of the store with a
\* server error (5xx), never with a client error.
C12_StatusFollowsTaxonomy ==
    (IsHandlerCost /\ call.serviceCalls = 1 /\ call.resp.status = "error") =>
        /\ call.resp.error[1] \in ValidationErrors => call.resp.code \in 400..499
        /\ call.resp.error[1] = ErrCalcCost => call.resp.code \in 500..599

\* the request has one of the defects that validation names
Defective(req) ==
    \/ req.service_name = EmptyStr
    \/ req.price <= 0
    \/ req.user_id = UuidNil
    \/ ~WellFormedPeriod(req.start_date)
    \/ /\ req.end_date # NilPtr
       /\ req.end_date[1] # EmptyStr
       /\ ~WellFormedPeriod(req.end_date[1])

\* the error validation gives for the first defect of a request
FirstDefect(req) ==
    IF req.service_name = EmptyStr THEN ErrServiceName
    ELSE IF req.price <= 0 THEN ErrPrice
    ELSE IF req.user_id = UuidNil THEN ErrUserID
    ELSE IF req.start_date = EmptyStr THEN ErrDateEmpty
    ELSE ErrDateFormat

\* C13: CreateSubscription of a request with an empty service name, a price
\* <= 0, a nil user identifier, a start period the validator rejects or a
\* non-empty end period it rejects returns a nil subscription and the error
\* of the first such defect, does not call the repository and leaves the
\* stored subscriptions (and the identifier sequence) unchanged.
C13_CreateRejectsInvalid ==
    [][(call'.op = "CreateSubscription" /\ Defective(call'.req)) =>
          /\ call'.result = NilPtr
          /\ call'.err = FirstDefect(call'.req)
          /\ call'.repoCalls = 0
          /\ store' = store
          /\ nextId' = nextId]_vars

\* a create with a malformed end period was rejected while rows are stored
C13_Witness ==
    /\ call.op = "CreateSubscription"
    /\ call.req.end_date = Ptr(S_01_25)
    /\ call.err = ErrDateFormat
    /\ call.repoCalls = 0
    /\ store # {}

\* C14: after any sequence of CreateSubscription, UpdateSubscription and
\* DeleteSubscription calls through the service every stored subscription has
\* a non-empty service name, a price > 0, a non-nil user identifier, a start
\* period of the form MM-YYYY and an end period that is absent (NULL) or of
\* the form MM-YYYY, never the empty string.
C14_StoredRowsValid ==
    \A r \in store :
        /\ r.service_name # EmptyStr
        /\ r.price > 0
        /\ r.user_id # UuidNil
        /\ WellFormedPeriod(r.start_date)
        /\ (r.end_date = NilPtr \/ WellFormedPeriod(r.end_date[1]))

ReadOps == {"GetCostByPeriod", "GetAllSubscriptions", "GetSubscriptionByID"}

\* the arguments of a cost call
CostArgs(c) == <<c.startDate, c.endDate, c.userID, c.serviceName>>

\* C15: GetCostByPeriod, GetAllSubscriptions and GetSubscriptionByID leave
\* the stored subscriptions (and the identifier sequence) as they are; a
\* successful GetCostByPeriod returns the aggregate of the rows stored then,
\* so that a second successful call with the same arguments directly after
\* the first returns the same total_cost and count.
C15_ReadsChangeNothing ==
    [][/\ call'.op \in ReadOps => (store' = store /\ nextId' = nextId)
       /\ (call'.op = "GetCostByPeriod" /\ call'.err = NoError) =>
             LET rows == Matching(call'.startDate, call'.endDate, call'.userID,
                                  call'.serviceName)
             IN  call'.result = Ptr([total_cost |-> TotalPrice(rows),
                                     count |-> Cardinality(rows)])
       /\ (/\ call.op = "GetCostByPeriod" /\ call'.op = "GetCostByPeriod"
           /\ CostArgs(call) = CostArgs(call')
           /\ call.err = NoError /\ call'.err = NoError) =>
             call'.result = call.result]_vars

\* a row was read by its identifier and both stored rows are still there
C15_Witness ==
    /\ call.op = "GetSubscriptionByID"
    /\ call.err = NoError
    /\ call.result # NilPtr
    /\ Cardinality(store) = 2

\* the identifier is the one of a stored row
Stored(id) == \E r \in store : r.id = id

\* C16: while the store works, Delete of the identifier of a stored row
\* removes exactly that row and returns no error, and a GetByID of that
\* identifier directly afterwards (as of any identifier that is not stored)
\* returns nil and the error "subscription not found"; Delete of an
\* identifier that is not stored, also a second Delete of the same
\* identifier, returns "subscription not found" and leaves the store as it is.
C16_DeleteThenNotFound ==
    [][/\ (call'.op = "DeleteSubscription" /\ DeleteSubscription(call'.id, FALSE)) =>
             IF Stored(call'.id)
             THEN /\ call'.err = NoError
                  /\ store' = {r \in store : r.id # call'.id}
                  /\ Cardinality(store') = Cardinality(store) - 1
             ELSE /\ call'.err = ErrNotFound
                  /\ store' = store
       /\ (call'.op = "GetSubscriptionByID" /\ ~Stored(call'.id)) =>
             (call'.err = ErrNotFound /\ call'.result = NilPtr)
       /\ (/\ call.op = "DeleteSubscription" /\ call.err = NoError
           /\ call'.op = "GetSubscriptionByID" /\ call'.id = call.id) =>
             (call'.err = ErrNotFound /\ call'.result = NilPtr)
       /\ (/\ call.op = "DeleteSubscription" /\ call.err = NoError
           /\ call'.op = "DeleteSubscription" /\ call'.id = call.id
           /\ DeleteSubscription(call'.id, FALSE)) =>
             (call'.err = ErrNotFound /\ store' = store)]_vars

\* of two rows created the first was deleted and the second is still stored
C16_Witness ==
    /\ call.op = "DeleteSubscription"
    /\ call.id = 1
    /\ call.err = NoError
    /\ nextId = 3
    /\ Cardinality(store) = 1
    /\ Stored(2)

\* the fields of a subscription that a request sets
RequestOf(sub) ==
    Req(sub.service_name, sub.price, sub.user_id, sub.start_date, sub.end_date)

\* C17: a successful Create returns a subscription whose identifier is > 0
\* and is the identifier of no subscription created before (stored or
\* deleted since), and whose service name, price, user, start and end period
\* are those of the request, and stores it; while the store works GetByID of
\* the identifier of a stored row returns that row, directly after the Create
\* the subscription the Create returned; a stored row stays as it is in every
\* step that is not a successful Update or Delete of its identifier.
C17_CreateAssignsFreshId ==
    [][/\ (call'.op = "CreateSubscription" /\ call'.err = NoError) =>
             /\ call'.result # NilPtr
             /\ call'.result[1].id > 0
             /\ call'.result[1].id \notin created
             /\ ~Stored(call'.result[1].id)
             /\ RequestOf(call'.result[1]) = call'.req
             /\ store' = store \cup {call'.result[1]}
       /\ (/\ call'.op = "GetSubscriptionByID" /\ Stored(call'.id)
           /\ GetSubscriptionByID(call'.id, FALSE)) =>
             /\ call'.err = NoError
             /\ call'.result # NilPtr
             /\ call'.result[1] \in store
             /\ call'.result[1].id = call'.id
       /\ (/\ call.op = "CreateSubscription" /\ call.err = NoError
           /\ call'.op = "GetSubscriptionByID" /\ call'.err = NoError
           /\ call'.id = call.result[1].id) =>
             call'.result = call.result
       /\ \A r \in store \ store' :
             /\ call'.op \in {"UpdateSubscription", "DeleteSubscription"}
             /\ call'.id = r.id
             /\ call'.err = NoError]_vars

\* a Create after the Delete of the first row: the new row has identifier 2
C17_Witness ==
    /\ call.op = "CreateSubscription"
    /\ call.err = NoError
    /\ call.result[1].id = 2
    /\ store = {call.result[1]}
    /\ created = {1, 2}

IsHandlerCreate == call.op = "Handler.CreateSubscription"
IsHandlerUpdate == call.op = "Handler.UpdateSubscription"
IsHandlerDelete == call.op = "Handler.DeleteSubscription"
IsHandlerList == call.op = "Handler.GetSubscriptions"

\* a decimal integer: an optional sign and one or more digits
IsInteger(s) ==
    \E k \in {0, 1} :
        /\ Len(s) > k
        /\ k = 1 => s[1] \in {43, 45}
        /\ \A i \in (k + 1)..Len(s) : s[i] \in 48..57

\* the response is the error envelope with this status and text, written
\* without a call of the service
RefusedWith(code, text) ==
    /\ call.resp.code = code
    /\ call.resp.status = "error"
    /\ call.resp.error[1] = text
    /\ call.resp.data = NilPtr
    /\ call.serviceCalls = 0

\* C18: a request the handler cannot parse is answered with HTTP 400 and an
\* error envelope without a call of the service: a user_id that is no UUID
\* on the cost endpoint ("Invalid user ID format"), an {id} that is no
\* integer on update and delete ("Invalid subscription ID"), and a body that
\* is no JSON text on create and on update ("Invalid JSON"; on update the
\* {id} is parsed first, and its error is the one reported).
C18_UnparsedIsRefused ==
    /\ (IsHandlerCost /\ call.user_id \notin {EmptyStr, U1, U2, UuidNil}) =>
          RefusedWith(400, "Invalid user ID format")
    /\ ((IsHandlerUpdate \/ IsHandlerDelete) /\ ~IsInteger(call.idParam)) =>
          RefusedWith(400, "Invalid subscription ID")
    /\ (IsHandlerCreate /\ call.body.kind = "text") =>
          RefusedWith(400, "Invalid JSON")
    /\ (IsHandlerUpdate /\ IsInteger(call.idParam) /\ call.body.kind = "text") =>
          RefusedWith(400, "Invalid JSON")

\* a delete with the {id} "x1" was refused while rows are stored
C18_Witness ==
    /\ IsHandlerDelete
    /\ call.idParam = <<120, 49>>
    /\ RefusedWith(400, "Invalid subscription ID")
    /\ store # {}

IsHandled ==
    IsHandlerCost \/ IsHandlerCreate \/ IsHandlerUpdate \/ IsHandlerDelete
        \/ IsHandlerList

\* C19: every response of the handlers is an envelope whose status is
\* "success" exactly when the HTTP status is 2xx, 201 for a create and 200
\* for the others; a success envelope has no error text; an error envelope
\* has the status "error", an error text that is not empty and no data; the
\* data of a success of the cost endpoint is the {total_cost, count} the
\* service returns for the parsed parameters.
C19_EnvelopeMatchesStatus ==
    IsHandled =>
        /\ call.resp.status \in {"success", "error"}
        /\ call.resp.status = "success" <=> call.resp.code \in 200..299
        /\ call.resp.status = "success" =>
              /\ call.resp.code = (IF IsHandlerCreate THEN 201 ELSE 200)
              /\ call.resp.error = <<NoError, NoError>>
        /\ call.resp.status = "error" =>
              /\ call.resp.error[1] \notin {NoError, ""}
              /\ call.resp.data = NilPtr
        /\ (IsHandlerCost /\ call.resp.status = "success") =>
              /\ call.resp.data =
                    serviceGetCostByPeriod(store, call.start_date, call.end_date,
                                           call.userID, call.serviceName, FALSE).result
              /\ call.resp.data # NilPtr
              /\ DOMAIN call.resp.data[1] = {"total_cost", "count"}

\* a create answered with 201 and the stored subscription as data
C19_Witness ==
    /\ IsHandlerCreate
    /\ call.resp.code = 201
    /\ call.resp.status = "success"
    /\ call.resp.data # NilPtr
    /\ call.resp.data[1] \in store

\* the rows of a table that satisfy the filters f = <<start, end, user, service>>
MatchingIn(rows, f) == {r \in rows : RowMatches(r, f[1], f[2], f[3], f[4])}

\* the request p in flight holds a statement
HasStatement(p) ==
    call[p].pc = "built" \/ (call[p].pc = "done" /\ call[p].err \notin ValidationErrors)

\* C20: concurrent GetCostByPeriod invocations do not interfere: under every
\* interleaving of the steps of the invocations with each other and with
\* creates, updates and deletes, the statement of an invocation (predicates,
\* placeholders, arguments) is the one of its own filters, and its result
\* is the sum and the number of the rows that were stored at the moment of
\* its one read and satisfy its own filters.
C20_InvocationsAreIndependent ==
    \A p \in Procs :
        /\ HasStatement(p) =>
              LET f == FilterValues(call[p].filters[1], call[p].filters[2],
                                    call[p].filters[3], call[p].filters[4])
              IN  /\ call[p].q.args = PresentValues(f)
                  /\ [i \in 1..Len(call[p].q.preds) |-> call[p].q.preds[i].col]
                        = PresentColumns(f)
                  /\ \A i \in 1..Len(call[p].q.preds) : call[p].q.preds[i].ph = i
        /\ (call[p].pc = "done" /\ call[p].err = NoError) =>
              call[p].result =
                  Ptr([total_cost |-> TotalPrice(MatchingIn(call[p].seen, call[p].filters)),
                       count |-> Cardinality(MatchingIn(call[p].seen, call[p].filters))])

\* two invocations with different filters have read the table at different
\* moments, with different results, and the table has changed again since
C20_Witness ==
    /\ call[1].pc = "done" /\ call[2].pc = "done"
    /\ call[1].err = NoError /\ call[2].err = NoError
    /\ call[1].filters # call[2].filters
    /\ call[1].seen # call[2].seen
    /\ call[1].result # call[2].result
    /\ store \notin {call[1].seen, call[2].seen}

\* the errors of validateSubscriptionRequest
RequestErrors == {ErrServiceName, ErrPrice, ErrUserID, ErrDateEmpty, ErrDateFormat}

\* C21: an update request with an integer id and a JSON body whose fields
\* fail the validation of subscriptions is answered with HTTP 400; HTTP 404
\* is the answer only when no subscription with that id is stored.
C21_UpdateValidationIs400 ==
    (IsHandlerUpdate /\ call.serviceCalls = 1) =>
        /\ call.resp.error[1] \in RequestErrors => call.resp.code = 400
        /\ call.resp.code = 404 => ~Stored(strconvAtoi(call.idParam).v)

\* both calls of the comparison have been made
Compared == call.op = "compare" /\ call.phase = "updated"

\* C22: UpdateSubscription applies the validation of CreateSubscription:
\* for every combination of service name, price, user identifier, start and
\* end period the update of a stored row is rejected exactly when the
\* create of the same values is rejected (that is, when the request is
\* defective), with the same error; a rejected update returns nil, does
\* not call the repository and leaves the store as it was.
C22_UpdateValidatesAsCreate ==
    Compared =>
        /\ call.update.err \in RequestErrors <=> call.create.err \in RequestErrors
        /\ call.create.err \in RequestErrors <=> Defective(call.req)
        /\ call.create.err \in RequestErrors => call.update.err = call.create.err
        /\ call.update.err \in RequestErrors =>
              /\ call.update.result = NilPtr
              /\ call.update.repoCalls = 0
              /\ store = call.before
        /\ call.update.err \notin RequestErrors =>
              (call.update.err = NoError /\ call.update.repoCalls = 1)

\* a request with a malformed end period only: both calls gave the format
\* error and the first row is still the only one
C22_Witness ==
    /\ Compared
    /\ call.req = Req(Netflix, 100, U1, P_01_2025, Ptr(S_01_25))
    /\ call.create.err = ErrDateFormat
    /\ call.update.err = ErrDateFormat
    /\ store = {Row(1, SeedRequest)}

\* C23: a successful Update of identifier id replaces service name, price,
\* user, start and end period of that row with the values of the request
\* (and sets its update timestamp) and leaves its identifier, its creation
\* timestamp and every other row as they were; an Update that fails, as
\* every Update of an identifier that is not stored does, returns an error
\* and a nil subscription, creates no row and changes no row; while the
\* store works the Update of a stored row with a valid request succeeds.
C23_UpdateReplacesFieldsOnly ==
    [][(/\ call'.op = "UpdateSubscription"
        /\ \E f \in BOOLEAN : UpdateSubscription(call'.id, call'.req, f)) =>
          /\ IF call'.err = NoError
             THEN \E old \in store :
                      /\ old.id = call'.id
                      /\ call'.result # NilPtr
                      /\ call'.result[1].id = old.id
                      /\ call'.result[1].created_at = old.created_at
                      /\ call'.result[1].updated_at = now
                      /\ RequestOf(call'.result[1]) = call'.req
                      /\ store' = (store \ {old}) \cup {call'.result[1]}
             ELSE /\ call'.result = NilPtr
                  /\ store' = store
          /\ ~Stored(call'.id) => call'.err # NoError
          /\ (Stored(call'.id) /\ UpdateSubscription(call'.id, call'.req, FALSE)) =>
                call'.err = NoError
          /\ nextId' = nextId
          /\ created' = created]_vars

\* the first of two rows was updated a second or more after it was created;
\* the second row is as it was created
C23_Witness ==
    /\ call.op = "UpdateSubscription"
    /\ call.id = 1
    /\ call.err = NoError
    /\ call.result[1].created_at < call.result[1].updated_at
    /\ call.result[1] \in store
    /\ \E r \in store : r.id = 2 /\ RequestOf(r) = ClockCreate

\* C24: after any sequence of create, update and delete calls of the service,
\* every successful GetCostByPeriod answers a count of at least zero, a total
\* cost of at least the count, and a total cost of zero exactly when the
\* count is zero; every stored price is at least 1.
C24_CostBoundsCount ==
    /\ \A r \in store : r.price >= 1
    /\ (IsServiceCost /\ call.err = NoError) =>
          /\ call.result # NilPtr
          /\ call.result[1].count >= 0
          /\ call.result[1].total_cost >= call.result[1].count
          /\ (call.result[1].total_cost = 0) <=> (call.result[1].count = 0)

\* a cost query counted both of two stored rows
C24_Witness ==
    /\ IsServiceCost
    /\ call.err = NoError
    /\ call.result[1].count = 2
    /\ call.result[1].total_cost = 150
    /\ Cardinality(store) = 2

\* the filters of the cost call d keep the values of those of the cost call c
\* and supply an end period, a user identifier or a service name where c has none
AddsFilters(c, d) ==
    /\ d.startDate = c.startDate
    /\ c.endDate # EmptyStr => d.endDate = c.endDate
    /\ ~IsNil(c.userID) => d.userID = c.userID
    /\ ~IsNil(c.serviceName) => d.serviceName = c.serviceName

\* C25: on an unchanged store a successful cost query whose filters keep the
\* values of the successful query before it and add an end period, a user
\* identifier or a service name answers no greater count and no greater
\* total cost.
C25_MoreFiltersNoMore ==
    [][(/\ IsServiceCost
        /\ call.err = NoError
        /\ call'.op = "GetCostByPeriod"
        /\ call'.err = NoError
        /\ store' = store
        /\ AddsFilters(call, call')) =>
          /\ call'.result[1].count <= call.result[1].count
          /\ call'.result[1].total_cost <= call.result[1].total_cost]_vars

\* a query with a user identifier counted fewer rows, at a smaller total,
\* than the store answers to the same query without the user identifier
C25_Witness ==
    /\ IsServiceCost
    /\ call.err = NoError
    /\ ~IsNil(call.userID)
    /\ LET wider == serviceGetCostByPeriod(store, call.startDate, call.endDate,
                                           NilPtr, call.serviceName, FALSE)
       IN  /\ wider.err = NoError
           /\ 0 < call.result[1].count
           /\ call.result[1].count < wider.result[1].count
           /\ call.result[1].total_cost < wider.result[1].total_cost

====
